---- MODULE Spec2Model ----
(***************************************************************************)
(* Model of rgb-matrix-pi's input layer:                                   *)
(*   - hid_listener.py    HIDListener   (HID boot-report acquisition)      *)
(*   - stdin_listener.py  StdinListener (terminal escape-sequence decoder) *)
(*   - stdin_proxy.py     StdinProxy    (event relay over a local socket)  *)
(*                                                                         *)
(* The three classes share no state.  Each one is a component with its own *)
(* next-state relation; SpecHid, SpecStdin, SpecProxy, SpecOpen and        *)
(* SpecDecode run one component each, SpecEsc runs the terminal worker on  *)
(* escape sequences alone, and SpecEngines runs either acquisition engine. *)
(* SpecStart runs HIDListener.start on top of _open, SpecBridge runs       *)
(* StdinProxy.run, and SpecLive runs either engine with a fairly scheduled *)
(* worker thread.  SpecLastDir runs the terminal worker against a consumer *)
(* of get_last_direction(), and SpecAgree feeds one byte stream to the     *)
(* terminal worker and to StdinProxy.run.                                  *)
(*                                                                         *)
(* Time is the value of time.time(), counted in ticks of 5 ms.             *)
(***************************************************************************)
EXTENDS Integers, Sequences, FiniteSets, TLC

VARIABLES
    now,                 \* time.time(), in ticks
    \* ---- HIDListener -------------------------------------------------
    hid_dev,             \* self.dev: "none" | "open" | "closed"
    hid_running,         \* self.running
    hid_thread,          \* worker position: "none" | "loop" | "read" | "exited"
    hid_ctl,             \* controller position: "init" | "failed" | "started" | "join" | "close" | "stopped"
    hid_key_states,      \* self.key_states
    hid_key_press_time,  \* self.key_press_time
    hid_event_queue,     \* self.event_queue
    prev_keys,           \* _run's local prev_keys
    error_count,         \* _run's local error_count
    hid_enqueued,        \* history: every event put on hid_event_queue, in order
    hid_reports,         \* history: number of reports the worker has processed
    \* ---- report decoding alone ----------------------------------------
    rep_buf,             \* a report handed to the decoder
    rep_keys,            \* the set of directions decoded from rep_buf
    rep_done,            \* rep_buf has been decoded
    \* ---- StdinListener ----------------------------------------------
    stdin_cleared,       \* history: a timed-out poll has dropped a pending escape sequence
    stdin_sigint,        \* history: the worker has sent SIGINT to the process
    is_tty,              \* environment: stdin was a terminal when start() ran
    term_mode,           \* the terminal's mode: "cooked" | "raw"
    old_settings,        \* self.old_settings: "none" or a saved mode
    stdin_running,       \* self.running
    stdin_thread,        \* worker: "none" | "spawned" | "loop" | "select" | "read" | "restore" | "exited"
    stdin_ctl,           \* controller: "init" | "started" | "restore" | "stopped"
    stdin_key_states,    \* self.key_states
    stdin_key_press_time,\* self.key_press_time
    last_direction,      \* self.last_direction
    stdin_event_queue,   \* self.event_queue
    buffer,              \* _run's local buffer
    escape_sequence_start, \* _run's local escape_sequence_start: <<>> (None) or <<time>>
    stdin_enqueued,      \* history: every event put on stdin_event_queue, in order
    stdin_nread,         \* history: number of bytes read
    stdin_errors,        \* history: number of exceptions caught in the loop
    stdin_last_read,     \* history: when the last byte was read
    stdin_recent,        \* history: the last three bytes read
    \* ---- HIDListener._open ------------------------------------------
    enum,                \* environment: what hid.enumerate() returns, in order
    device_path,         \* self.device_path: 0 (None) or a path
    vid,                 \* self.vid: 0 (None) or a vendor id
    pid,                 \* self.pid: 0 (None) or a product id
    open_pc,             \* position in _open: "path" | "vidpid" | "enumerate" | "loop" | "returned" | "raised"
    candidates,          \* _open's local candidates
    open_next,           \* index in candidates of the one the loop tries next
    open_handle,         \* the handle _open returned: 0 or the path of the opened device
    open_attempts,       \* history: the paths _open tried to open, in order
    open_closed,         \* history: the paths of the handles _open closed again
    \* ---- StdinProxy -------------------------------------------------
    sock,                \* self.sock: 0 (None) or the connection it holds
    conns,               \* environment: every connection made, with what was written to it
    proxy_connects,      \* history: number of connect attempts
    proxy_calls,         \* history: the send() calls made, in order
    \* ---- StdinProxy.run ---------------------------------------------
    br_pc,               \* position in run(): "idle" | "read" | "send_down" | "send_up" | "quit" | "returned"
    br_mode,             \* the mode of the bridge's terminal: "cooked" | "raw"
    br_old,              \* run's local old: "none" or the saved mode
    br_buf,              \* run's local buf
    br_b,                \* run's local b, the byte read last: <<>> before the first
    br_name,             \* run's local name, the direction being sent
    br_input,            \* history: what read(1) returned, in order ("EOF": b'')
    \* ---- StdinListener.get_last_direction, on the consumer's thread ----
    gld_pc,              \* position in get_last_direction(): "idle" | "clear"
    gld_direction,       \* its local direction
    gld_seen,            \* history: events enqueued when it read self.last_direction
    gld_returned         \* history: what the last call returned

hid_vars == <<hid_dev, hid_running, hid_thread, hid_ctl, hid_key_states,
              hid_key_press_time, hid_event_queue, prev_keys, error_count,
              hid_enqueued, hid_reports>>

rep_vars == <<rep_buf, rep_keys, rep_done>>

stdin_vars == <<stdin_cleared, stdin_sigint, is_tty, term_mode, old_settings, stdin_running, stdin_thread, stdin_ctl,
                stdin_key_states, stdin_key_press_time, last_direction,
                stdin_event_queue, buffer, escape_sequence_start, stdin_enqueued,
                stdin_nread, stdin_errors, stdin_last_read, stdin_recent>>

open_vars == <<enum, device_path, vid, pid, open_pc, candidates, open_next,
               open_handle, open_attempts, open_closed>>

proxy_vars == <<sock, conns, proxy_connects, proxy_calls>>

bridge_vars == <<br_pc, br_mode, br_old, br_buf, br_b, br_name, br_input>>

gld_vars == <<gld_pc, gld_direction, gld_seen, gld_returned>>

vars == <<now, hid_vars, rep_vars, stdin_vars, open_vars, proxy_vars, bridge_vars, gld_vars>>

\* What each component leaves alone.
hid_others == <<rep_vars, stdin_vars, open_vars, proxy_vars, bridge_vars, gld_vars>>
rep_others == <<hid_vars, stdin_vars, open_vars, proxy_vars, bridge_vars, gld_vars>>
stdin_others == <<hid_vars, rep_vars, open_vars, proxy_vars, bridge_vars, gld_vars>>
open_others == <<hid_vars, rep_vars, stdin_vars, proxy_vars, bridge_vars, gld_vars>>
proxy_others == <<hid_vars, rep_vars, stdin_vars, open_vars, bridge_vars, gld_vars>>
bridge_others == <<hid_vars, rep_vars, stdin_vars, open_vars, gld_vars>>
gld_others == <<hid_vars, rep_vars, open_vars, proxy_vars, bridge_vars>>

(***************************************************************************)
(* Bounds of the model.                                                    *)
(***************************************************************************)
MaxReports == 2      \* reports one HID worker processes
MaxDevices == 3      \* attached HID devices
MaxSends == 3        \* send() calls made on one StdinProxy
MaxBridgeBytes == 5  \* bytes the bridge reads
BridgeMaxTime == 1   \* last clock tick the bridge sees
ProxyMaxTime == 2    \* last clock tick the relay sender sees
HidMaxTime == 1      \* last clock tick the HID engine sees

Keys == {"up", "down", "left", "right"}

(***************************************************************************)
(* Python helpers.                                                         *)
(***************************************************************************)
\* All orders in which a for-loop can visit the elements of a Python set.
Orders(S) ==
    {s \in [1..Cardinality(S) -> S] : \A i, j \in 1..Cardinality(S) : s[i] = s[j] => i = j}

\* seq[start:end] of a Python list held as a 1-indexed sequence: the elements
\* at Python indices start .. end-1 that exist.
PySlice(buf, start, end) ==
    [i \in 1..(IF end > Len(buf) THEN (IF Len(buf) > start THEN Len(buf) - start ELSE 0)
                                 ELSE (IF end > start THEN end - start ELSE 0))
        |-> buf[start + i]]

\* The clock between two reads of time.time(): it stands still or moves on.
Later(max) == {t \in now..(now + 1) : t <= max}

(***************************************************************************)
(* hid_listener.py: report decoding.                                       *)
(***************************************************************************)
ArrowUsages == {82, 81, 79, 80}      \* 0x52, 0x51, 0x4F, 0x50

USAGE_ARROW_MAP ==
    [u \in ArrowUsages |->
        CASE u = 82 -> "up" [] u = 81 -> "down" [] u = 79 -> "right" [] u = 80 -> "left"]

\* One pass of "for usage in buf[start:end]" for one offset.
WindowKeys(buf, offset) ==
    LET start == offset + 2
        end == start + 6
        win == PySlice(buf, start, end)
    IN  {USAGE_ARROW_MAP[win[i]] :
            i \in {j \in 1..Len(win) : win[j] # 0 /\ win[j] \in DOMAIN USAGE_ARROW_MAP}}

\* The mutant parses offset 0 only.
DecodeReport_offset0(buf) == WindowKeys(buf, 0)

\* keys, as _run builds it from one report.
DecodeReport(buf) == WindowKeys(buf, 0) \cup WindowKeys(buf, 1)

(***************************************************************************)
(* Injected reports: nine bytes (a boot report behind a report-ID byte),   *)
(* all zero but for up to two bytes from ReportBytes at the Python indices *)
(* in ReportSlots: 1 is the reserved byte, 2 lies in the offset-0 window   *)
(* only, 8 in the offset-1 window only.                                    *)
(***************************************************************************)
ReportSlots == {1, 2, 8}
ReportBytes == {0, 82, 80, 4}      \* 0x04 is the usage of the key "a"

Reports ==
    {[[[i \in 1..9 |-> 0] EXCEPT ![s1 + 1] = b1] EXCEPT ![s2 + 1] = b2] :
        s1 \in ReportSlots, s2 \in ReportSlots, b1 \in ReportBytes, b2 \in ReportBytes}

(***************************************************************************)
(* hid_listener.py: HIDListener.                                           *)
(***************************************************************************)
max_errors == 10

Event(k, d, ts) == [key |-> k, is_down |-> d, ts |-> ts]

HidInit ==
    /\ hid_dev = "none"
    /\ hid_running = FALSE
    /\ hid_thread = "none"
    /\ hid_ctl = "init"
    /\ hid_key_states = [k \in Keys |-> FALSE]
    /\ hid_key_press_time = [k \in Keys |-> 0]
    /\ hid_event_queue = <<>>
    /\ prev_keys = {}
    /\ error_count = 0
    /\ hid_enqueued = <<>>
    /\ hid_reports = 0

\* start(), when _open() returns a handle: the worker is spawned.
HidStart ==
    /\ hid_ctl = "init"
    /\ hid_dev' = "open"
    /\ hid_running' = TRUE
    /\ hid_thread' = "loop"
    /\ prev_keys' = {}
    /\ error_count' = 0
    /\ hid_ctl' = "started"
    /\ UNCHANGED hid_others
    /\ UNCHANGED <<now, hid_key_states, hid_key_press_time, hid_event_queue,
                   hid_enqueued, hid_reports>>

\* stop(): self.running = False.
HidStop ==
    /\ hid_ctl = "started"
    /\ hid_running' = FALSE
    /\ hid_ctl' = "join"
    /\ UNCHANGED hid_others
    /\ UNCHANGED <<now, hid_dev, hid_thread, hid_key_states, hid_key_press_time,
                   hid_event_queue, prev_keys, error_count, hid_enqueued, hid_reports>>

\* stop(): thread.join(timeout=1.0) returns, the worker having exited or not.
HidJoin ==
    /\ hid_ctl = "join"
    /\ hid_ctl' = "close"
    /\ UNCHANGED hid_others
    /\ UNCHANGED <<now, hid_dev, hid_running, hid_thread, hid_key_states,
                   hid_key_press_time, hid_event_queue, prev_keys, error_count,
                   hid_enqueued, hid_reports>>

\* stop(): self.dev.close().
HidClose ==
    /\ hid_ctl = "close"
    /\ hid_dev' = "closed"
    /\ hid_ctl' = "stopped"
    /\ UNCHANGED hid_others
    /\ UNCHANGED <<now, hid_running, hid_thread, hid_key_states, hid_key_press_time,
                   hid_event_queue, prev_keys, error_count, hid_enqueued, hid_reports>>

\* The mutant loops whatever the flag says.
HidLoopTest_ignoresFlag ==
    /\ hid_thread = "loop"
    /\ hid_thread' = "read"
    /\ UNCHANGED hid_others
    /\ UNCHANGED <<now, hid_dev, hid_running, hid_ctl, hid_key_states,
                   hid_key_press_time, hid_event_queue, prev_keys, error_count,
                   hid_enqueued, hid_reports>>

\* "while self.running:" and the re-check before the read.
HidLoopTest ==
    /\ hid_thread = "loop"
    /\ hid_thread' = IF hid_running THEN "read" ELSE "exited"
    /\ UNCHANGED hid_others
    /\ UNCHANGED <<now, hid_dev, hid_running, hid_ctl, hid_key_states,
                   hid_key_press_time, hid_event_queue, prev_keys, error_count,
                   hid_enqueued, hid_reports>>

\* The mutant forgets "prev_keys = keys".
HidNextPrev_stale(keys) == prev_keys

\* prev_keys after a report that decoded to keys.
HidNextPrev(keys) == keys

\* The mutant leaves released keys marked as pressed.
HidKeyStatesAfter_noclear(down, up) ==
    [k \in Keys |-> IF k \in down THEN TRUE ELSE hid_key_states[k]]

\* key_states after the two loops over down and up.
HidKeyStatesAfter(down, up) ==
    [k \in Keys |-> IF k \in up THEN FALSE
                    ELSE IF k \in down THEN TRUE
                    ELSE hid_key_states[k]]

\* The mutant stamps every key of the report, not only the new ones.
HidKeyPressTimeAfter_all(keys, down, ts) ==
    [k \in Keys |-> IF k \in keys THEN ts ELSE hid_key_press_time[k]]

\* key_press_time after the loop over down.
HidKeyPressTimeAfter(keys, down, ts) ==
    [k \in Keys |-> IF k \in down THEN ts ELSE hid_key_press_time[k]]

\* The mutant lets the counter pass the ceiling by one.
CeilingReached_late(n) == n > max_errors

\* "if error_count >= max_errors:"
CeilingReached(n) == n >= max_errors

\* dev.read() returns a report: decode it, enqueue its edges.
HidReadReport ==
    /\ hid_thread = "read"
    /\ hid_dev = "open"
    /\ hid_reports < MaxReports
    /\ \E buf \in Reports, ts \in Later(HidMaxTime) :
         LET keys == DecodeReport(buf)
             down == keys \ prev_keys
             up == prev_keys \ keys
         IN  \E od \in Orders(down), ou \in Orders(up) :
               LET evs == [i \in 1..Len(od) |-> Event(od[i], TRUE, ts)]
                          \o [i \in 1..Len(ou) |-> Event(ou[i], FALSE, ts)]
               IN  /\ now' = ts
                   /\ hid_key_states' = HidKeyStatesAfter(down, up)
                   /\ hid_key_press_time' = HidKeyPressTimeAfter(keys, down, ts)
                   /\ hid_event_queue' = hid_event_queue \o evs
                   /\ hid_enqueued' = hid_enqueued \o evs
                   /\ prev_keys' = HidNextPrev(keys)
    /\ error_count' = 0
    /\ hid_reports' = hid_reports + 1
    /\ hid_thread' = "loop"
    /\ UNCHANGED hid_others
    /\ UNCHANGED <<hid_dev, hid_running, hid_ctl>>

\* dev.read() returns nothing within the timeout: sleep 10 ms, retry.
HidReadNoData ==
    /\ hid_thread = "read"
    /\ hid_dev = "open"
    /\ \E t \in Later(HidMaxTime) : now' = t
    /\ hid_thread' = "loop"
    /\ UNCHANGED hid_others
    /\ UNCHANGED <<hid_dev, hid_running, hid_ctl, hid_key_states, hid_key_press_time,
                   hid_event_queue, prev_keys, error_count, hid_enqueued, hid_reports>>

\* dev.read() raises OSError.
HidReadOSError ==
    /\ hid_thread = "read"
    /\ \E t \in Later(HidMaxTime) : now' = t
    /\ IF ~hid_running
       THEN /\ hid_thread' = "exited"
            /\ UNCHANGED <<error_count, hid_running>>
       ELSE /\ error_count' = error_count + 1
            /\ IF CeilingReached(error_count + 1)
               THEN hid_running' = FALSE /\ hid_thread' = "exited"
               ELSE hid_thread' = "loop" /\ UNCHANGED hid_running
    /\ UNCHANGED hid_others
    /\ UNCHANGED <<hid_dev, hid_ctl, hid_key_states, hid_key_press_time,
                   hid_event_queue, prev_keys, hid_enqueued, hid_reports>>

\* dev.read() raises anything else (the outer "except Exception").
HidReadException ==
    /\ hid_thread = "read"
    /\ \E t \in Later(HidMaxTime) : now' = t
    /\ error_count' = error_count + 1
    /\ IF CeilingReached(error_count + 1)
       THEN hid_running' = FALSE /\ hid_thread' = "exited"
       ELSE hid_thread' = "loop" /\ UNCHANGED hid_running
    /\ UNCHANGED hid_others
    /\ UNCHANGED <<hid_dev, hid_ctl, hid_key_states, hid_key_press_time,
                   hid_event_queue, prev_keys, hid_enqueued, hid_reports>>

\* get_event() on a non-empty queue.
HidGetEvent ==
    /\ hid_event_queue # <<>>
    /\ hid_event_queue' = Tail(hid_event_queue)
    /\ UNCHANGED hid_others
    /\ UNCHANGED <<now, hid_dev, hid_running, hid_thread, hid_ctl, hid_key_states,
                   hid_key_press_time, prev_keys, error_count, hid_enqueued, hid_reports>>

\* is_pressed(key)
hid_is_pressed(key) ==
    IF key \in DOMAIN hid_key_states THEN hid_key_states[key] ELSE FALSE

hid_pressed_duration(key) ==
    IF ~hid_is_pressed(key) THEN 0 ELSE now - hid_key_press_time[key]

HidNext ==
    \/ HidStart
    \/ HidStop
    \/ HidJoin
    \/ HidClose
    \/ HidLoopTest
    \/ HidReadReport
    \/ HidReadNoData
    \/ HidReadOSError
    \/ HidReadException
    \/ HidGetEvent

(***************************************************************************)
(* Report decoding on its own: any report of up to MaxReportLen bytes with *)
(* up to two non-zero bytes is handed to the decoder.                      *)
(***************************************************************************)
MaxReportLen == 10

DecodeBytes == {0, 1, 4, 79, 80, 81, 82}     \* 1 is a report ID, 4 the key "a"

DecodeInputs ==
    UNION {
      {[[[i \in 1..n |-> 0] EXCEPT ![p1] = b1] EXCEPT ![p2] = b2] :
          p1 \in 1..n, p2 \in 1..n, b1 \in DecodeBytes, b2 \in DecodeBytes}
      : n \in 1..MaxReportLen} \cup {<<>>}

RepInit ==
    /\ rep_buf = <<>>
    /\ rep_keys = {}
    /\ rep_done = FALSE

\* The decoding part of _run, applied to one report.
RepDecode ==
    /\ ~rep_done
    /\ rep_keys' = DecodeReport(rep_buf)
    /\ rep_done' = TRUE
    /\ UNCHANGED rep_buf
    /\ UNCHANGED <<now, rep_others>>

(***************************************************************************)
(* stdin_listener.py: StdinListener.                                       *)
(*                                                                         *)
(* A byte "is ready" when select() reports stdin readable and read(1)      *)
(* returns it.                                                             *)
(***************************************************************************)
StdinMaxTime == 2    \* last clock tick that polls and clock reads reach
MaxBytes == 6        \* bytes the worker reads
MaxStdinErrors == 1  \* exceptions raised by select() or read(1)
EscMaxTime == 24     \* the first two bounds where the escape timeout is at stake
EscMaxBytes == 5
LiveMaxTime == 2     \* last clock tick a running terminal engine sees, shutdown runs
LiveMaxBytes == 3    \* bytes the terminal engine reads, shutdown runs
LiveMaxReports == 1  \* reports the HID worker processes, shutdown runs
LastDirMaxTime == 2  \* last clock tick the worker sees, last-direction runs
LastDirMaxBytes == 6 \* bytes the worker reads, last-direction runs
AgreeMaxTime == 24   \* last clock tick the worker sees, two-decoder runs
AgreeMaxBytes == 3   \* bytes fed to both decoders

SELECT_TIMEOUT == 2  \* select(..., 0.01): 10 ms
ESC_TIMEOUT == 20    \* elapsed > 0.1: 100 ms
ERROR_SLEEP == 20    \* time.sleep(0.1)

ESC == "ESC"         \* '\x1b'
ETX == "ETX"         \* '\x03'
StdinBytes == {"[", "A", "D", "x"}     \* the bytes fed, besides ESC and ETX
EscBytes == {"[", "A"}
LastDirBytes == {"[", "A", "D"}
AgreeBytes == {"[", "A", "D"}

ESCAPE_MAP ==
    [q \in {<<ESC, "[", "A">>, <<ESC, "[", "B">>, <<ESC, "[", "C">>, <<ESC, "[", "D">>} |->
        CASE q[3] = "A" -> "up" [] q[3] = "B" -> "down"
          [] q[3] = "C" -> "right" [] q[3] = "D" -> "left"]

StdinInit ==
    /\ stdin_cleared = FALSE
    /\ stdin_sigint = FALSE
    /\ is_tty = FALSE
    /\ term_mode = "cooked"
    /\ old_settings = "none"
    /\ stdin_running = FALSE
    /\ stdin_thread = "none"
    /\ stdin_ctl = "init"
    /\ stdin_key_states = [k \in Keys |-> FALSE]
    /\ stdin_key_press_time = [k \in Keys |-> 0]
    /\ last_direction = "none"
    /\ stdin_event_queue = <<>>
    /\ buffer = <<>>
    /\ escape_sequence_start = <<>>
    /\ stdin_enqueued = <<>>
    /\ stdin_nread = 0
    /\ stdin_errors = 0
    /\ stdin_last_read = 0
    /\ stdin_recent = <<>>

\* termios.tcsetattr(sys.stdin, TCSANOW, self.old_settings), guarded by
\* "if self.old_settings".
Restored == IF old_settings # "none" THEN old_settings ELSE term_mode

\* start(): save the terminal mode (when stdin is a terminal), spawn the worker.
StdinStart ==
    /\ stdin_ctl = "init"
    /\ \E tty \in BOOLEAN :
         /\ is_tty' = tty
         /\ old_settings' = IF tty THEN term_mode ELSE "none"
    /\ stdin_running' = TRUE
    /\ stdin_thread' = "spawned"
    /\ stdin_ctl' = "started"
    /\ UNCHANGED <<now, stdin_others>>
    /\ UNCHANGED <<stdin_cleared, stdin_sigint, term_mode, stdin_key_states, stdin_key_press_time,
                   last_direction, stdin_event_queue, buffer, escape_sequence_start,
                   stdin_enqueued, stdin_nread, stdin_errors, stdin_last_read,
                   stdin_recent>>

\* stop(): self.running = False.
StdinStop ==
    /\ stdin_ctl = "started"
    /\ stdin_running' = FALSE
    /\ stdin_ctl' = "restore"
    /\ UNCHANGED <<now, stdin_others>>
    /\ UNCHANGED <<is_tty, stdin_sigint, stdin_cleared, term_mode, old_settings, stdin_thread, stdin_key_states,
                   stdin_key_press_time, last_direction, stdin_event_queue, buffer,
                   escape_sequence_start, stdin_enqueued, stdin_nread,
                   stdin_errors, stdin_last_read, stdin_recent>>

\* stop(): restore the saved terminal mode, return.
StdinStopRestore ==
    /\ stdin_ctl = "restore"
    /\ term_mode' = Restored
    /\ stdin_ctl' = "stopped"
    /\ UNCHANGED <<now, stdin_others>>
    /\ UNCHANGED <<is_tty, stdin_sigint, stdin_cleared, old_settings, stdin_running, stdin_thread, stdin_key_states,
                   stdin_key_press_time, last_direction, stdin_event_queue, buffer,
                   escape_sequence_start, stdin_enqueued, stdin_nread,
                   stdin_errors, stdin_last_read, stdin_recent>>

\* _run: tty.setraw(); on failure the worker returns.
StdinSetRaw ==
    /\ stdin_thread = "spawned"
    /\ IF is_tty
       THEN term_mode' = "raw" /\ stdin_thread' = "loop"
       ELSE stdin_thread' = "exited" /\ UNCHANGED term_mode
    /\ UNCHANGED <<now, stdin_others>>
    /\ UNCHANGED <<is_tty, stdin_sigint, stdin_cleared, old_settings, stdin_running, stdin_ctl, stdin_key_states,
                   stdin_key_press_time, last_direction, stdin_event_queue, buffer,
                   escape_sequence_start, stdin_enqueued, stdin_nread,
                   stdin_errors, stdin_last_read, stdin_recent>>

\* "while self.running:"
StdinLoopTest ==
    /\ stdin_thread = "loop"
    /\ stdin_thread' = IF stdin_running THEN "select" ELSE "restore"
    /\ UNCHANGED <<now, stdin_others>>
    /\ UNCHANGED <<is_tty, stdin_sigint, stdin_cleared, term_mode, old_settings, stdin_running, stdin_ctl,
                   stdin_key_states, stdin_key_press_time, last_direction,
                   stdin_event_queue, buffer, escape_sequence_start, stdin_enqueued,
                   stdin_nread, stdin_errors, stdin_last_read, stdin_recent>>

\* The mutant measures the timeout with >= instead of >.
Expired_ge(t) == escape_sequence_start # <<>> /\ t - escape_sequence_start[1] >= ESC_TIMEOUT

\* "escape_sequence_start is not None and elapsed > 0.1", at time t.
Expired(t) == escape_sequence_start # <<>> /\ t - escape_sequence_start[1] > ESC_TIMEOUT

\* select() times out with nothing to read: drop a stale escape sequence.
StdinSelectTimeout(maxTime) ==
    /\ stdin_thread = "select"
    /\ now + SELECT_TIMEOUT <= maxTime
    /\ now' = now + SELECT_TIMEOUT
    /\ IF Expired(now')
       THEN /\ buffer' = <<>>
            /\ escape_sequence_start' = <<>>
            /\ stdin_cleared' = TRUE
       ELSE UNCHANGED <<buffer, escape_sequence_start, stdin_cleared>>
    /\ stdin_thread' = "loop"
    /\ UNCHANGED stdin_others
    /\ UNCHANGED <<is_tty, stdin_sigint, term_mode, old_settings, stdin_running, stdin_ctl,
                   stdin_key_states, stdin_key_press_time, last_direction,
                   stdin_event_queue, stdin_enqueued, stdin_nread, stdin_errors,
                   stdin_last_read, stdin_recent>>

\* select() reports stdin readable before its timeout has run out.
StdinSelectReady(maxTime, maxBytes) ==
    /\ stdin_thread = "select"
    /\ stdin_nread < maxBytes
    /\ \E dt \in 0..(SELECT_TIMEOUT - 1) :
         /\ now + dt <= maxTime
         /\ now' = now + dt
    /\ stdin_thread' = "read"
    /\ UNCHANGED stdin_others
    /\ UNCHANGED <<is_tty, stdin_sigint, stdin_cleared, term_mode, old_settings, stdin_running, stdin_ctl,
                   stdin_key_states, stdin_key_press_time, last_direction,
                   stdin_event_queue, buffer, escape_sequence_start, stdin_enqueued,
                   stdin_nread, stdin_errors, stdin_last_read, stdin_recent>>

\* History: the read of byte ch, which enqueued ev events, joins the last three.
\* quick: less than ESC_TIMEOUT after the previous byte.
Recent(ch, ev) ==
    LET r == [ch |-> ch, quick |-> (now - stdin_last_read < ESC_TIMEOUT), ev |-> ev]
        all == Append(stdin_recent, r)
    IN  IF Len(all) > 3 THEN Tail(all) ELSE all

\* read(1) returns '\x03': self.running = False.
StdinReadInterrupt ==
    /\ stdin_thread = "read"
    /\ stdin_running' = FALSE
    /\ stdin_thread' = "etx_restore"
    /\ stdin_nread' = stdin_nread + 1
    /\ stdin_last_read' = now
    /\ stdin_recent' = Recent(ETX, 0)
    /\ UNCHANGED <<now, stdin_others>>
    /\ UNCHANGED <<is_tty, stdin_sigint, stdin_cleared, term_mode, old_settings, stdin_ctl,
                   stdin_key_states, stdin_key_press_time, last_direction,
                   stdin_event_queue, buffer, escape_sequence_start, stdin_enqueued,
                   stdin_errors>>

\* The '\x03' branch: restore the saved terminal mode.
StdinInterruptRestore ==
    /\ stdin_thread = "etx_restore"
    /\ term_mode' = Restored
    /\ stdin_thread' = "etx_kill"
    /\ UNCHANGED <<now, stdin_others>>
    /\ UNCHANGED <<is_tty, stdin_sigint, stdin_cleared, old_settings, stdin_running, stdin_ctl,
                   stdin_key_states, stdin_key_press_time, last_direction,
                   stdin_event_queue, buffer, escape_sequence_start, stdin_enqueued,
                   stdin_nread, stdin_errors, stdin_last_read, stdin_recent>>

\* The mutant signals and stays in the loop.
AfterSignal_continue == "loop"

\* "os.kill(os.getpid(), signal.SIGINT)" is followed by "break".
AfterSignal == "restore"

\* The '\x03' branch: send SIGINT to the process, leave the loop.
StdinInterruptSignal ==
    /\ stdin_thread = "etx_kill"
    /\ stdin_sigint' = TRUE
    /\ stdin_thread' = AfterSignal
    /\ UNCHANGED <<now, stdin_others>>
    /\ UNCHANGED <<is_tty, stdin_cleared, term_mode, old_settings, stdin_running, stdin_ctl,
                   stdin_key_states, stdin_key_press_time, last_direction,
                   stdin_event_queue, buffer, escape_sequence_start, stdin_enqueued,
                   stdin_nread, stdin_errors, stdin_last_read, stdin_recent>>

\* read(1) returns ESC: a new pending sequence.
StdinReadEsc ==
    /\ stdin_thread = "read"
    /\ buffer' = <<ESC>>
    /\ escape_sequence_start' = <<now>>
    /\ stdin_thread' = "loop"
    /\ stdin_nread' = stdin_nread + 1
    /\ stdin_last_read' = now
    /\ stdin_recent' = Recent(ESC, 0)
    /\ UNCHANGED <<now, stdin_others>>
    /\ UNCHANGED <<is_tty, stdin_sigint, stdin_cleared, term_mode, old_settings, stdin_running, stdin_ctl,
                   stdin_key_states, stdin_key_press_time, last_direction,
                   stdin_event_queue, stdin_enqueued, stdin_errors>>

\* The mutant takes 'A' alone for the letter of an arrow.
Resolves_upOnly(buf) ==
    /\ Len(buf) = 3
    /\ buf[2] = "["
    /\ buf[3] \in {"A"}

\* "len(buffer) == 3 and buffer[1] == '[' and buffer[2] in ['A','B','C','D']"
Resolves(buf) ==
    /\ Len(buf) = 3
    /\ buf[2] = "["
    /\ buf[3] \in {"A", "B", "C", "D"}

\* The mutant reports a repeated arrow as a release.
StdinEvent_toggle(key, ts) == Event(key, ~stdin_key_states[key], ts)

\* The tuple put on the queue for a decoded arrow.
StdinEvent(key, ts) == Event(key, TRUE, ts)

\* read(1) returns any other byte.
StdinReadOther(maxTime, bytes) ==
    /\ stdin_thread = "read"
    /\ \E ch \in bytes :
         IF escape_sequence_start = <<>>
         THEN /\ stdin_recent' = Recent(ch, 0)
              /\ UNCHANGED <<now, buffer, escape_sequence_start, stdin_key_states,
                             stdin_key_press_time, last_direction, stdin_event_queue,
                             stdin_enqueued>>
         ELSE LET buf == Append(buffer, ch)
              IN  IF Resolves(buf)
                  THEN /\ IF buf \in DOMAIN ESCAPE_MAP
                          THEN LET key == ESCAPE_MAP[buf]
                               IN  \E ts \in Later(maxTime) :
                                     /\ stdin_key_states' =
                                          [stdin_key_states EXCEPT ![key] = TRUE]
                                     /\ stdin_key_press_time' =
                                          [stdin_key_press_time EXCEPT ![key] = now]
                                     /\ last_direction' = key
                                     /\ stdin_event_queue' =
                                          Append(stdin_event_queue, StdinEvent(key, ts))
                                     /\ stdin_enqueued' =
                                          Append(stdin_enqueued, StdinEvent(key, ts))
                                     /\ now' = ts
                                     /\ stdin_recent' = Recent(ch, 1)
                          ELSE /\ stdin_recent' = Recent(ch, 0)
                               /\ UNCHANGED <<now, stdin_key_states, stdin_key_press_time,
                                              last_direction, stdin_event_queue,
                                              stdin_enqueued>>
                       /\ buffer' = <<>>
                       /\ escape_sequence_start' = <<>>
                  ELSE /\ IF Len(buf) > 5
                          THEN buffer' = <<>> /\ escape_sequence_start' = <<>>
                          ELSE buffer' = buf /\ UNCHANGED escape_sequence_start
                       /\ stdin_recent' = Recent(ch, 0)
                       /\ UNCHANGED <<now, stdin_key_states, stdin_key_press_time,
                                      last_direction, stdin_event_queue, stdin_enqueued>>
    /\ stdin_thread' = "loop"
    /\ stdin_nread' = stdin_nread + 1
    /\ stdin_last_read' = now
    /\ UNCHANGED stdin_others
    /\ UNCHANGED <<is_tty, stdin_sigint, stdin_cleared, term_mode, old_settings, stdin_running, stdin_ctl,
                   stdin_errors>>

\* read(1) returns '' (end of input): "continue".
StdinReadEOF ==
    /\ stdin_thread = "read"
    /\ stdin_thread' = "loop"
    /\ UNCHANGED <<now, stdin_others>>
    /\ UNCHANGED <<is_tty, stdin_sigint, stdin_cleared, term_mode, old_settings, stdin_running, stdin_ctl,
                   stdin_key_states, stdin_key_press_time, last_direction,
                   stdin_event_queue, buffer, escape_sequence_start, stdin_enqueued,
                   stdin_nread, stdin_errors, stdin_last_read, stdin_recent>>

\* select() or read(1) raises: clear the buffer, sleep 100 ms.
StdinReadError ==
    /\ stdin_thread \in {"select", "read"}
    /\ stdin_errors < MaxStdinErrors
    /\ stdin_errors' = stdin_errors + 1
    /\ now' = now + ERROR_SLEEP
    /\ buffer' = <<>>
    /\ escape_sequence_start' = <<>>
    /\ stdin_thread' = "loop"
    /\ UNCHANGED stdin_others
    /\ UNCHANGED <<is_tty, stdin_sigint, stdin_cleared, term_mode, old_settings, stdin_running, stdin_ctl,
                   stdin_key_states, stdin_key_press_time, last_direction,
                   stdin_event_queue, stdin_enqueued, stdin_nread, stdin_last_read,
                   stdin_recent>>

\* After the loop: "Always restore terminal when exiting".
StdinExitRestore ==
    /\ stdin_thread = "restore"
    /\ term_mode' = Restored
    /\ stdin_thread' = "exited"
    /\ UNCHANGED <<now, stdin_others>>
    /\ UNCHANGED <<is_tty, stdin_sigint, stdin_cleared, old_settings, stdin_running, stdin_ctl, stdin_key_states,
                   stdin_key_press_time, last_direction, stdin_event_queue, buffer,
                   escape_sequence_start, stdin_enqueued, stdin_nread,
                   stdin_errors, stdin_last_read, stdin_recent>>

\* get_event() on a non-empty queue.
StdinGetEvent ==
    /\ stdin_event_queue # <<>>
    /\ stdin_event_queue' = Tail(stdin_event_queue)
    /\ UNCHANGED <<now, stdin_others>>
    /\ UNCHANGED <<is_tty, stdin_sigint, stdin_cleared, term_mode, old_settings, stdin_running, stdin_thread,
                   stdin_ctl, stdin_key_states, stdin_key_press_time, last_direction,
                   buffer, escape_sequence_start, stdin_enqueued, stdin_nread,
                   stdin_errors, stdin_last_read, stdin_recent>>

GldInit ==
    /\ gld_pc = "idle"
    /\ gld_direction = "none"
    /\ gld_seen = 0
    /\ gld_returned = "none"

\* get_last_direction(): "direction = self.last_direction".
GetLastDirectionRead ==
    /\ gld_pc = "idle"
    /\ gld_direction' = last_direction
    /\ gld_seen' = Len(stdin_enqueued)
    /\ gld_pc' = "clear"
    /\ UNCHANGED <<now, stdin_vars, gld_others, gld_returned>>

\* get_last_direction(): "self.last_direction = None; return direction".
GetLastDirectionClear ==
    /\ gld_pc = "clear"
    /\ last_direction' = "none"
    /\ gld_returned' = gld_direction
    /\ gld_pc' = "idle"
    /\ UNCHANGED <<now, gld_others, gld_direction, gld_seen>>
    /\ UNCHANGED <<is_tty, stdin_sigint, stdin_cleared, term_mode, old_settings, stdin_running,
                   stdin_thread, stdin_ctl, stdin_key_states, stdin_key_press_time,
                   stdin_event_queue, buffer, escape_sequence_start, stdin_enqueued,
                   stdin_nread, stdin_errors, stdin_last_read, stdin_recent>>

\* is_pressed(key)
stdin_is_pressed(key) ==
    IF key \in DOMAIN stdin_key_states THEN stdin_key_states[key] ELSE FALSE

\* pressed_duration(key)
stdin_pressed_duration(key) ==
    IF ~stdin_is_pressed(key) THEN 0 ELSE now - stdin_key_press_time[key]

StdinNext ==
    \/ StdinStart
    \/ StdinStop
    \/ StdinStopRestore
    \/ StdinSetRaw
    \/ StdinLoopTest
    \/ StdinSelectTimeout(StdinMaxTime)
    \/ StdinSelectReady(StdinMaxTime, MaxBytes)
    \/ StdinReadInterrupt
    \/ StdinInterruptRestore
    \/ StdinInterruptSignal
    \/ StdinReadEsc
    \/ StdinReadOther(StdinMaxTime, StdinBytes)
    \/ StdinReadEOF
    \/ StdinReadError
    \/ StdinExitRestore
    \/ StdinGetEvent

\* The last clock tick a poll of the worker may end at: the polls of a stopped
\* engine are not cut short, its worker has one poll to go at most.
StdinHorizon == IF stdin_running THEN LiveMaxTime ELSE now + SELECT_TIMEOUT

\* The steps of the worker thread, every poll of a stopped engine returning.
StdinWorker ==
    \/ StdinSetRaw
    \/ StdinLoopTest
    \/ StdinSelectTimeout(StdinHorizon)
    \/ StdinSelectReady(StdinHorizon, LiveMaxBytes)
    \/ StdinReadInterrupt
    \/ StdinInterruptRestore
    \/ StdinInterruptSignal
    \/ StdinReadEsc
    \/ StdinReadOther(StdinHorizon, EscBytes)
    \/ StdinReadEOF
    \/ StdinReadError
    \/ StdinExitRestore

\* The worker of a started terminal engine decoding arrows while a consumer
\* thread calls get_last_direction().
LastDirNext ==
    \/ StdinStart
    \/ StdinSetRaw
    \/ StdinLoopTest
    \/ StdinSelectTimeout(LastDirMaxTime)
    \/ StdinSelectReady(LastDirMaxTime, LastDirMaxBytes)
    \/ StdinReadEsc
    \/ StdinReadOther(LastDirMaxTime, LastDirBytes)
    \/ GetLastDirectionRead
    \/ GetLastDirectionClear

\* The worker of a started terminal engine, fed ESC, '[' and 'A' only, over
\* a time long enough for the escape timeout to run out twice.
EscNext ==
    \/ StdinStart
    \/ StdinSetRaw
    \/ StdinLoopTest
    \/ StdinSelectTimeout(EscMaxTime)
    \/ StdinSelectReady(EscMaxTime, EscMaxBytes)
    \/ StdinReadEsc
    \/ StdinReadOther(EscMaxTime, EscBytes)
    \/ StdinReadEOF
    \/ StdinReadError

(***************************************************************************)
(* HIDListener._open: device acquisition.                                   *)
(***************************************************************************)
\* Strings are sequences of characters.  A descriptor field holds a str, a
\* bytes object or None.
Str(val) == [kind |-> "str", val |-> val]
Bytes(val) == [kind |-> "bytes", val |-> val]
None == [kind |-> "none", val |-> <<>>]

UpperCase == <<"A", "B", "C", "D", "E", "F", "G", "H", "I", "J", "K", "L", "M",
               "N", "O", "P", "Q", "R", "S", "T", "U", "V", "W", "X", "Y", "Z">>
LowerCase == <<"a", "b", "c", "d", "e", "f", "g", "h", "i", "j", "k", "l", "m",
               "n", "o", "p", "q", "r", "s", "t", "u", "v", "w", "x", "y", "z">>

\* str.lower()
LowerChar(c) ==
    IF \E i \in DOMAIN UpperCase : UpperCase[i] = c
    THEN LowerCase[CHOOSE i \in DOMAIN UpperCase : UpperCase[i] = c]
    ELSE c

Lower(str) == [i \in DOMAIN str |-> LowerChar(str[i])]

\* "sub in str"
Contains(sub, str) ==
    \E i \in 0..(Len(str) - Len(sub)) : SubSeq(str, i + 1, i + Len(sub)) = sub

\* _s(x): the text of x, '' for None.
Text_s(x) == IF x.kind = "none" THEN <<>> ELSE x.val

KEYBOARD == <<"k", "e", "y", "b", "o", "a", "r", "d">>
LOGITECH == <<"l", "o", "g", "i", "t", "e", "c", "h">>
KEY == <<"k", "e", "y">>

\* The mutant compares the strings without lower-casing them.
IsKeyboard_caseSensitive(d) ==
    LET prod == Text_s(d.product_string)
        mfg == Text_s(d.manufacturer_string)
    IN  \/ d.usage_page = 1 /\ d.usage = 6
        \/ Contains(KEYBOARD, prod) \/ Contains(KEYBOARD, mfg)
        \/ /\ d.interface_number \in {0, 1}
           /\ Contains(LOGITECH, mfg) \/ Contains(KEY, prod)

\* is_keyboard, as the loop over hid.enumerate() computes it for d.
IsKeyboard(d) ==
    LET prod == Text_s(d.product_string)
        mfg == Text_s(d.manufacturer_string)
    IN  \/ d.usage_page = 1 /\ d.usage = 6
        \/ Contains(KEYBOARD, Lower(prod)) \/ Contains(KEYBOARD, Lower(mfg))
        \/ /\ d.interface_number \in {0, 1}
           /\ Contains(LOGITECH, Lower(mfg)) \/ Contains(KEY, Lower(prod))

\* "if is_keyboard and path: candidates.append(...)", over the enumeration.
Candidates(devs) == SelectSeq(devs, LAMBDA d : IsKeyboard(d) /\ d.path # 0)

\* Descriptors of attached devices, without path and behaviour.
UsageDev ==
    [usage_page |-> 1, usage |-> 6, product_string |-> Str(<<"G", "a", "d", "g", "e", "t">>),
     manufacturer_string |-> None, interface_number |-> 2,
     vendor_id |-> 1, product_id |-> 1]
ProductDev ==
    [usage_page |-> 12, usage |-> 1,
     product_string |-> Str(<<"U", "S", "B", " ", "K", "e", "y", "b", "o", "a", "r", "d">>),
     manufacturer_string |-> Str(<<"A", "c", "m", "e">>), interface_number |-> 2,
     vendor_id |-> 2, product_id |-> 1]
OtherDev ==
    [usage_page |-> 1, usage |-> 2, product_string |-> Str(<<"M", "o", "u", "s", "e">>),
     manufacturer_string |-> Str(<<"A", "c", "m", "e">>), interface_number |-> 0,
     vendor_id |-> 1, product_id |-> 1]
BrandDev ==
    [usage_page |-> 12, usage |-> 1,
     product_string |-> Str(<<"R", "e", "c", "e", "i", "v", "e", "r">>),
     manufacturer_string |-> Bytes(<<"L", "o", "g", "i", "t", "e", "c", "h">>),
     interface_number |-> 1, vendor_id |-> 3, product_id |-> 1]
KeypadDev ==
    [usage_page |-> 1, usage |-> 7, product_string |-> Str(<<"K", "e", "y", "p", "a", "d">>),
     manufacturer_string |-> None, interface_number |-> 2,
     vendor_id |-> 3, product_id |-> 2]
DevicePool == {UsageDev, ProductDev, OtherDev, BrandDev, KeypadDev}

\* What opening a device does: it opens and answers the probe read, it does
\* not open, or it opens and the probe read raises.
OpenOutcomes == {"ok", "open_fails", "probe_raises"}

\* An attached device: a descriptor, the path hid.enumerate() reports for it
\* (0: none) and what opening it does.
Attached(d, path, opens) ==
    [usage_page |-> d.usage_page, usage |-> d.usage,
     product_string |-> d.product_string,
     manufacturer_string |-> d.manufacturer_string,
     interface_number |-> d.interface_number,
     vendor_id |-> d.vendor_id, product_id |-> d.product_id,
     path |-> path, opens |-> opens]

\* Enumerations of at most MaxDevices distinct devices; the device at
\* position i has path i, or none.
Enumerations ==
    UNION {{e \in [1..n -> DevicePool \X {TRUE, FALSE} \X OpenOutcomes] :
               \A i, j \in 1..n : i # j => e[i][1] # e[j][1]} : n \in 0..MaxDevices}

EnumOf(e) ==
    [i \in DOMAIN e |-> Attached(e[i][1], IF e[i][2] THEN i ELSE 0, e[i][3])]

\* Configurations: no device configured, a path, a vendor/product id, both.
DevicePaths == {0, 1}
VidPids == {<<0, 0>>, <<1, 1>>}

\* _open has not been called; nothing is attached, nothing is configured.
OpenIdle ==
    /\ enum = <<>>
    /\ device_path = 0
    /\ vid = 0
    /\ pid = 0
    /\ open_pc = "path"
    /\ candidates = <<>>
    /\ open_next = 1
    /\ open_handle = 0
    /\ open_attempts = <<>>
    /\ open_closed = <<>>

\* _open is about to run, for any configuration and any attached devices.
OpenInit ==
    /\ enum \in {EnumOf(e) : e \in Enumerations}
    /\ device_path \in DevicePaths
    /\ \E vp \in VidPids : vid = vp[1] /\ pid = vp[2]
    /\ open_pc = "path"
    /\ candidates = <<>>
    /\ open_next = 1
    /\ open_handle = 0
    /\ open_attempts = <<>>
    /\ open_closed = <<>>

\* h.open_path(path) succeeds: a device is attached there and opens.
PathOpens(path) ==
    \E i \in DOMAIN enum : enum[i].path = path /\ enum[i].opens # "open_fails"

\* The attached devices h.open(vid, pid) looks at: those with these ids.
Matching(v, p) == {i \in DOMAIN enum : enum[i].vendor_id = v /\ enum[i].product_id = p}

First(S) == CHOOSE i \in S : \A j \in S : i <= j

Attempt(how, path) == [how |-> how, path |-> path]

\* "if self.device_path:" open it; on failure fall through.
OpenPath ==
    /\ open_pc = "path"
    /\ IF device_path # 0
       THEN /\ open_attempts' = Append(open_attempts, Attempt("open_path", device_path))
            /\ IF PathOpens(device_path)
               THEN open_handle' = device_path /\ open_pc' = "returned"
               ELSE open_pc' = "vidpid" /\ UNCHANGED open_handle
       ELSE /\ open_pc' = "vidpid"
            /\ UNCHANGED <<open_handle, open_attempts>>
    /\ UNCHANGED <<now, open_others>>
    /\ UNCHANGED <<enum, device_path, vid, pid, candidates, open_next, open_closed>>

\* The mutant goes on to the enumeration when the open by ids fails.
OpenVidPid_fallsThrough ==
    /\ open_pc = "vidpid"
    /\ IF vid # 0 /\ pid # 0
       THEN LET m == Matching(vid, pid)
                path == IF m = {} THEN 0 ELSE enum[First(m)].path
            IN  /\ open_attempts' = Append(open_attempts, Attempt("open", path))
                /\ IF path # 0 /\ PathOpens(path)
                   THEN open_handle' = path /\ open_pc' = "returned"
                   ELSE open_pc' = "enumerate" /\ UNCHANGED open_handle
       ELSE /\ open_pc' = "enumerate"
            /\ UNCHANGED <<open_handle, open_attempts>>
    /\ UNCHANGED <<now, open_others>>
    /\ UNCHANGED <<enum, device_path, vid, pid, candidates, open_next, open_closed>>

\* "if self.vid and self.pid:" open the first attached device with these
\* ids; a failure is raised to the caller.
OpenVidPid ==
    /\ open_pc = "vidpid"
    /\ IF vid # 0 /\ pid # 0
       THEN LET m == Matching(vid, pid)
                path == IF m = {} THEN 0 ELSE enum[First(m)].path
            IN  /\ open_attempts' = Append(open_attempts, Attempt("open", path))
                /\ IF path # 0 /\ PathOpens(path)
                   THEN open_handle' = path /\ open_pc' = "returned"
                   ELSE open_pc' = "raised" /\ UNCHANGED open_handle
       ELSE /\ open_pc' = "enumerate"
            /\ UNCHANGED <<open_handle, open_attempts>>
    /\ UNCHANGED <<now, open_others>>
    /\ UNCHANGED <<enum, device_path, vid, pid, candidates, open_next, open_closed>>

\* "for d in hid.enumerate():" collect the candidates.
OpenEnumerate ==
    /\ open_pc = "enumerate"
    /\ candidates' = Candidates(enum)
    /\ open_next' = 1
    /\ open_pc' = "loop"
    /\ UNCHANGED <<now, open_others>>
    /\ UNCHANGED <<enum, device_path, vid, pid, open_handle, open_attempts, open_closed>>

\* "for c in candidates:" open c and probe it; return it, or close it and
\* go on.  The probe read counts as raising when read(8, timeout_ms=50)
\* raises, or raises TypeError and read(8) raises.
OpenCandidate ==
    /\ open_pc = "loop"
    /\ open_next <= Len(candidates)
    /\ LET c == candidates[open_next]
       IN  /\ open_attempts' = Append(open_attempts, Attempt("open_path", c.path))
           /\ IF c.opens = "ok"
              THEN /\ open_handle' = c.path
                   /\ open_pc' = "returned"
                   /\ UNCHANGED <<open_next, open_closed>>
              ELSE /\ open_closed' = Append(open_closed, c.path)
                   /\ open_next' = open_next + 1
                   /\ UNCHANGED <<open_handle, open_pc>>
    /\ UNCHANGED <<now, open_others>>
    /\ UNCHANGED <<enum, device_path, vid, pid, candidates>>

\* The mutant returns no handle instead of raising.
OpenNoDevice_returnsNone ==
    /\ open_pc = "loop"
    /\ open_next > Len(candidates)
    /\ open_pc' = "returned"
    /\ UNCHANGED <<now, open_others>>
    /\ UNCHANGED <<enum, device_path, vid, pid, candidates, open_next, open_handle,
                   open_attempts, open_closed>>

\* The loop is over: "raise RuntimeError('No suitable HID device found')".
OpenNoDevice ==
    /\ open_pc = "loop"
    /\ open_next > Len(candidates)
    /\ open_pc' = "raised"
    /\ UNCHANGED <<now, open_others>>
    /\ UNCHANGED <<enum, device_path, vid, pid, candidates, open_next, open_handle,
                   open_attempts, open_closed>>

OpenNext ==
    \/ OpenPath
    \/ OpenVidPid
    \/ OpenEnumerate
    \/ OpenCandidate
    \/ OpenNoDevice

(***************************************************************************)
(* StdinProxy: the relay sender.                                            *)
(***************************************************************************)
ProxyKeys == {"left", "up"}

\* What is written to a connection is a sequence of tokens: the members of
\* a JSON object, in order, and the newline.
NL == [nl |-> TRUE]

\* json.dumps({'key': key, 'is_down': bool(is_down), 'ts': ts})
JsonDumps(key, is_down, ts) == <<[key |-> key], [is_down |-> is_down], [ts |-> ts]>>

\* The mutant leaves the newline out.
Message_unterminated(key, is_down, ts) == JsonDumps(key, is_down, ts)

\* msg = json.dumps(...) + '\n'
Message(key, is_down, ts) == JsonDumps(key, is_down, ts) \o <<NL>>

ProxyInit ==
    /\ sock = 0
    /\ conns = <<>>
    /\ proxy_connects = 0
    /\ proxy_calls = <<>>

\* The connection send() writes to: the one it holds, or a fresh one.
SendSock == IF sock = 0 THEN Len(conns) + 1 ELSE sock

\* The connections once send() holds one.
SendConns == IF sock = 0 THEN Append(conns, [stream |-> <<>>, closed |-> FALSE]) ELSE conns

\* The number of connect attempts once send() has passed "if not self.sock".
SendConnects == IF sock = 0 THEN proxy_connects + 1 ELSE proxy_connects

Call(key, is_down, ts, outcome) ==
    [key |-> key, is_down |-> is_down, ts |-> ts, outcome |-> outcome]

\* The mutant keeps the connection after a failed write.
SockAfterFailure_kept(s) == s

\* "self.sock = None" after a failed write on connection s.
SockAfterFailure(s) == 0

\* send(key, is_down): no connection is held and connect() fails; send
\* returns.
SendNoConnection(key, is_down) ==
    /\ sock = 0
    /\ proxy_calls' = Append(proxy_calls, Call(key, is_down, now, "no_connection"))
    /\ proxy_connects' = proxy_connects + 1
    /\ sock' = 0
    /\ UNCHANGED <<now, conns>>

\* send(key, is_down): connect() if no connection is held, then sendall()
\* writes msg.
SendWritten(key, is_down, maxTime) ==
    /\ \E ts \in Later(maxTime) :
         /\ now' = ts
         /\ conns' = [SendConns EXCEPT ![SendSock].stream = @ \o Message(key, is_down, ts)]
         /\ proxy_calls' = Append(proxy_calls, Call(key, is_down, ts, "written"))
    /\ proxy_connects' = SendConnects
    /\ sock' = SendSock

\* send(key, is_down): connect() if no connection is held, then sendall()
\* raises after writing n bytes of msg, not all of it; the connection is
\* closed and dropped, send returns.
SendFailed(key, is_down, maxTime) ==
    /\ \E ts \in Later(maxTime) :
         LET msg == Message(key, is_down, ts)
         IN  \E n \in 0..(Len(msg) - 1) :
               /\ now' = ts
               /\ conns' = [SendConns EXCEPT ![SendSock].stream = @ \o SubSeq(msg, 1, n),
                                             ![SendSock].closed = TRUE]
               /\ proxy_calls' = Append(proxy_calls, Call(key, is_down, ts, "write_failed"))
    /\ proxy_connects' = SendConnects
    /\ sock' = SockAfterFailure(SendSock)

\* send() called with any key and direction.
ProxySendNoConnection ==
    /\ Len(proxy_calls) < MaxSends
    /\ \E key \in ProxyKeys, is_down \in BOOLEAN : SendNoConnection(key, is_down)
    /\ UNCHANGED proxy_others

ProxySendWritten ==
    /\ Len(proxy_calls) < MaxSends
    /\ \E key \in ProxyKeys, is_down \in BOOLEAN : SendWritten(key, is_down, ProxyMaxTime)
    /\ UNCHANGED proxy_others

ProxySendFailed ==
    /\ Len(proxy_calls) < MaxSends
    /\ \E key \in ProxyKeys, is_down \in BOOLEAN : SendFailed(key, is_down, ProxyMaxTime)
    /\ UNCHANGED proxy_others

ProxyNext ==
    \/ ProxySendNoConnection
    \/ ProxySendWritten
    \/ ProxySendFailed

(***************************************************************************)
(* StdinProxy.run: the terminal-to-socket bridge.                           *)
(***************************************************************************)
ESC_SEQ_MAP ==
    (<<ESC, "[", "A">> :> "up") @@ (<<ESC, "[", "B">> :> "down") @@
    (<<ESC, "[", "C">> :> "right") @@ (<<ESC, "[", "D">> :> "left")

\* The bytes the bridge is fed.
BridgeBytes == {ESC, "[", "A", "D", "q", ETX}

\* bytes.endswith(seq)
EndsWith(bytes, seq) ==
    /\ Len(bytes) >= Len(seq)
    /\ SubSeq(bytes, Len(bytes) - Len(seq) + 1, Len(bytes)) = seq

\* The sequences of ESC_SEQ_MAP that bytes ends with.
Matches(bytes) == {seq \in DOMAIN ESC_SEQ_MAP : EndsWith(bytes, seq)}

BridgeInit ==
    /\ br_pc = "idle"
    /\ br_mode = "cooked"
    /\ br_old = "none"
    /\ br_buf = <<>>
    /\ br_b = <<>>
    /\ br_name = "none"
    /\ br_input = <<>>

\* run(): save the terminal mode, switch to raw mode, buf = b''.
BridgeStart ==
    /\ br_pc = "idle"
    /\ br_old' = br_mode
    /\ br_mode' = "raw"
    /\ br_buf' = <<>>
    /\ br_pc' = "read"
    /\ UNCHANGED <<now, proxy_vars, bridge_others>>
    /\ UNCHANGED <<br_b, br_name, br_input>>

\* read(1) returns b'': break; the finally clause restores the terminal.
BridgeReadEOF ==
    /\ br_pc = "read"
    /\ br_input' = Append(br_input, "EOF")
    /\ br_b' = <<>>
    /\ br_mode' = br_old
    /\ br_pc' = "returned"
    /\ UNCHANGED <<now, proxy_vars, bridge_others>>
    /\ UNCHANGED <<br_old, br_buf, br_name>>

\* read(1) returns a byte: buf += b, then look for an arrow sequence at the
\* end of buf.
BridgeReadByte ==
    /\ br_pc = "read"
    /\ Len(br_input) < MaxBridgeBytes
    /\ \E b \in BridgeBytes :
         LET bytes == Append(br_buf, b)
         IN  /\ br_input' = Append(br_input, b)
             /\ br_b' = <<b>>
             /\ br_buf' = bytes
             /\ IF Matches(bytes) # {}
                THEN /\ br_name' = ESC_SEQ_MAP[CHOOSE seq \in Matches(bytes) : TRUE]
                     /\ br_pc' = "send_down"
                ELSE /\ br_pc' = "quit"
                     /\ UNCHANGED br_name
    /\ UNCHANGED <<now, proxy_vars, bridge_others>>
    /\ UNCHANGED <<br_mode, br_old>>

\* The mutant sends an up record in the place of the down record.
BridgeSendDown_sendsUp ==
    /\ br_pc = "send_down"
    /\ \/ SendNoConnection(br_name, FALSE)
       \/ SendWritten(br_name, FALSE, BridgeMaxTime)
       \/ SendFailed(br_name, FALSE, BridgeMaxTime)
    /\ br_pc' = "send_up"
    /\ UNCHANGED bridge_others
    /\ UNCHANGED <<br_mode, br_old, br_buf, br_b, br_name, br_input>>

\* self.send(name, True), whatever becomes of it.
BridgeSendDown ==
    /\ br_pc = "send_down"
    /\ \/ SendNoConnection(br_name, TRUE)
       \/ SendWritten(br_name, TRUE, BridgeMaxTime)
       \/ SendFailed(br_name, TRUE, BridgeMaxTime)
    /\ br_pc' = "send_up"
    /\ UNCHANGED bridge_others
    /\ UNCHANGED <<br_mode, br_old, br_buf, br_b, br_name, br_input>>

\* self.send(name, False), whatever becomes of it; buf = b''; break.
BridgeSendUp ==
    /\ br_pc = "send_up"
    /\ \/ SendNoConnection(br_name, FALSE)
       \/ SendWritten(br_name, FALSE, BridgeMaxTime)
       \/ SendFailed(br_name, FALSE, BridgeMaxTime)
    /\ br_buf' = <<>>
    /\ br_pc' = "quit"
    /\ UNCHANGED bridge_others
    /\ UNCHANGED <<br_mode, br_old, br_b, br_name, br_input>>

\* The mutant quits on the interrupt byte instead.
IsQuit_etx(b) == b = <<ETX>>

\* "b == b'q'"
IsQuit(b) == b = <<"q">>

\* "if b == b'q': return", the finally clause restoring the terminal;
\* otherwise on to the next read.
BridgeQuitTest ==
    /\ br_pc = "quit"
    /\ IF IsQuit(br_b)
       THEN br_mode' = br_old /\ br_pc' = "returned"
       ELSE br_pc' = "read" /\ UNCHANGED br_mode
    /\ UNCHANGED <<now, proxy_vars, bridge_others>>
    /\ UNCHANGED <<br_old, br_buf, br_b, br_name, br_input>>

BridgeNext ==
    \/ BridgeStart
    \/ BridgeReadEOF
    \/ BridgeReadByte
    \/ BridgeSendDown
    \/ BridgeSendUp
    \/ BridgeQuitTest

(***************************************************************************)
(* The two terminal decoders, StdinListener._run and StdinProxy.run, fed    *)
(* one byte stream.  The two share nothing, so one schedule stands for all *)
(* of them: the listener reads a byte, then the bridge reads the same byte *)
(* and handles it before the listener goes on.  No byte comes more than    *)
(* the escape timeout after the last.                                      *)
(***************************************************************************)
\* The byte the listener has read last.
LastByteRead == stdin_recent[Len(stdin_recent)].ch

\* The bridge has yet to read the byte the listener has read last.
BridgeBehind == Len(br_input) < stdin_nread

\* The bridge has yet to start, or to read or handle a byte.
BridgeTurn == br_pc \in {"idle", "send_down", "send_up", "quit"} \/ BridgeBehind

\* The next byte is not later than the escape timeout after the last.
WithinGap == stdin_nread = 0 \/ now - stdin_last_read <= ESC_TIMEOUT

AgreeNext ==
    \/ ~BridgeTurn /\ StdinStart
    \/ ~BridgeTurn /\ StdinSetRaw
    \/ ~BridgeTurn /\ StdinLoopTest
    \/ ~BridgeTurn /\ StdinSelectTimeout(AgreeMaxTime)
    \/ ~BridgeTurn /\ StdinSelectReady(AgreeMaxTime, AgreeMaxBytes)
    \/ ~BridgeTurn /\ WithinGap /\ StdinReadEsc
    \/ ~BridgeTurn /\ WithinGap /\ StdinReadOther(AgreeMaxTime, AgreeBytes)
    \/ BridgeStart
    \/ BridgeBehind /\ BridgeReadByte /\ br_b' = <<LastByteRead>>
    \/ BridgeSendDown
    \/ BridgeSendUp
    \/ BridgeQuitTest

(***************************************************************************)
(* HIDListener.start on top of _open.                                       *)
(***************************************************************************)
\* start(): "self.dev = self._open()" returned a handle; the rest of start().
HidStartReturned ==
    /\ open_pc = "returned"
    /\ HidStart

\* start(): _open() raised, and so does start(); nothing was assigned.
HidStartRaised ==
    /\ open_pc = "raised"
    /\ hid_ctl = "init"
    /\ hid_ctl' = "failed"
    /\ UNCHANGED hid_others
    /\ UNCHANGED <<now, hid_dev, hid_running, hid_thread, hid_key_states,
                   hid_key_press_time, hid_event_queue, prev_keys, error_count,
                   hid_enqueued, hid_reports>>

\* start() from its call to its return; the worker, once spawned, may take
\* its first look at the running flag.
StartNext ==
    \/ OpenNext
    \/ HidStartReturned
    \/ HidStartRaised
    \/ HidLoopTest

(***************************************************************************)
(* Specifications.                                                         *)
(***************************************************************************)
Init ==
    /\ now = 0
    /\ HidInit
    /\ RepInit
    /\ StdinInit
    /\ OpenIdle
    /\ ProxyInit
    /\ BridgeInit
    /\ GldInit

SpecHid == Init /\ [][HidNext]_vars

\* Either acquisition engine: the two share no state.
EnginesNext ==
    \/ stdin_ctl = "init" /\ HidNext
    \/ hid_ctl = "init" /\ StdinNext

SpecEngines == Init /\ [][EnginesNext]_vars

\* The decoder applied to any one report of DecodeInputs.
DecodeInit ==
    /\ now = 0
    /\ HidInit
    /\ StdinInit
    /\ OpenIdle
    /\ ProxyInit
    /\ BridgeInit
    /\ GldInit
    /\ rep_buf \in DecodeInputs
    /\ rep_keys = {}
    /\ rep_done = FALSE

SpecDecode == DecodeInit /\ [][RepDecode]_vars

SpecStdin == Init /\ [][StdinNext]_vars

SpecEsc == Init /\ [][EscNext]_vars

\* _open, for any configuration and any attached devices.
InitOpen ==
    /\ now = 0
    /\ HidInit
    /\ RepInit
    /\ StdinInit
    /\ OpenInit
    /\ ProxyInit
    /\ BridgeInit
    /\ GldInit

SpecOpen == InitOpen /\ [][OpenNext]_vars

SpecProxy == Init /\ [][ProxyNext]_vars

SpecBridge == Init /\ [][BridgeNext]_vars

SpecLastDir == Init /\ [][LastDirNext]_vars

SpecAgree == Init /\ [][AgreeNext]_vars

\* Either acquisition engine with a worker thread that is scheduled fairly:
\* whenever the thread can take a step it eventually takes one.  Which way a
\* poll or a read turns out is not subject to fairness.
\* The steps of the HID worker, fed LiveMaxReports reports at most.
HidLiveWorker ==
    /\ stdin_ctl = "init"
    /\ \/ HidLoopTest
       \/ hid_reports < LiveMaxReports /\ HidReadReport
       \/ HidReadNoData
       \/ HidReadOSError
       \/ HidReadException

\* The steps of the HID engine's controller.
HidLiveControl ==
    /\ stdin_ctl = "init"
    /\ \/ HidStart
       \/ HidStop
       \/ HidJoin
       \/ HidClose
       \/ HidGetEvent

StdinLiveWorker == hid_ctl = "init" /\ StdinWorker

StdinLiveControl ==
    /\ hid_ctl = "init"
    /\ \/ StdinStart
       \/ StdinStop
       \/ StdinStopRestore
       \/ StdinGetEvent

LiveNext ==
    \/ HidLiveWorker
    \/ HidLiveControl
    \/ StdinLiveWorker
    \/ StdinLiveControl

SpecLive ==
    /\ Init
    /\ [][LiveNext]_vars
    /\ WF_vars(HidLiveWorker)
    /\ WF_vars(StdinLiveWorker)

\* start(), for any configuration and any attached devices.
SpecStart == InitOpen /\ [][StartNext]_vars

(***************************************************************************)
(* Properties.                                                             *)
(***************************************************************************)
\* The events of log that are about direction d, in order.
DirEvents(log, d) == SelectSeq(log, LAMBDA e : e.key = d)

\* down, up, down, up, ...
Alternates(s) == \A i \in 1..Len(s) : s[i].is_down = (i % 2 = 1)

\* The most recent event of log about d exists and is a down event.
LastIsDown(log, d) ==
    LET s == DirEvents(log, d) IN s # <<>> /\ s[Len(s)].is_down

\* C1: the events the HID worker enqueues for each direction alternate
\* strictly, starting with a down event, whatever reports, no-data reads and
\* read errors it is fed.
C1_HidEdgesAlternate ==
    \A d \in Keys : Alternates(DirEvents(hid_enqueued, d))

\* A key went down and up again, and the worker then met a read error.
C1_Witness ==
    /\ Len(DirEvents(hid_enqueued, "up")) >= 2
    /\ error_count > 0

\* C2 as stated: the terminal engine never enqueues two consecutive down
\* events for one direction without an up event between them.
C2_Original ==
    \A d \in Keys :
        LET s == DirEvents(stdin_enqueued, d)
        IN  \A i \in 1..(Len(s) - 1) : ~(s[i].is_down /\ s[i + 1].is_down)

\* C2 as amended: every event the terminal engine enqueues is a down event,
\* at most one for every three bytes read; no up event is ever enqueued.
C2_StdinOnlyDownEdges ==
    /\ \A i \in 1..Len(stdin_enqueued) : stdin_enqueued[i].is_down
    /\ 3 * Len(stdin_enqueued) <= stdin_nread

\* ESC [ A was received twice: two consecutive down events for "up".
C2_Witness ==
    /\ stdin_nread = 6
    /\ Len(DirEvents(stdin_enqueued, "up")) = 2

\* C3: in both engines is_pressed(d) is true exactly when the most recent
\* event enqueued for d is a down event, and false when there is none.
C3_PressedIffLastEdgeDown ==
    \A d \in Keys :
        /\ hid_is_pressed(d) = LastIsDown(hid_enqueued, d)
        /\ stdin_is_pressed(d) = LastIsDown(stdin_enqueued, d)

\* One key is down while another has gone down and up again.
C3_Witness ==
    \E d1, d2 \in Keys :
        /\ hid_is_pressed(d1)
        /\ ~hid_is_pressed(d2)
        /\ Len(DirEvents(hid_enqueued, d2)) = 2

\* pressed_duration(d) is 0 whenever d is not pressed.
ZeroWhenReleased ==
    \A d \in Keys :
        /\ ~hid_is_pressed(d) => hid_pressed_duration(d) = 0
        /\ ~stdin_is_pressed(d) => stdin_pressed_duration(d) = 0

\* C4 as stated: in both engines pressed_duration(d) is 0 whenever d is not
\* pressed and never decreases from one state to the next while d stays
\* pressed.
C4_Original ==
    /\ []ZeroWhenReleased
    /\ [][\A d \in Keys :
            /\ (hid_is_pressed(d) /\ hid_is_pressed(d)')
                   => hid_pressed_duration(d)' >= hid_pressed_duration(d)
            /\ (stdin_is_pressed(d) /\ stdin_is_pressed(d)')
                   => stdin_pressed_duration(d)' >= stdin_pressed_duration(d)]_vars

\* C4 as amended: pressed_duration(d) is 0 whenever d is not pressed; while
\* d stays pressed it never decreases in the HID engine, and in the terminal
\* engine it never decreases over a step that enqueues no down event for d.
C4_DurationMonotoneBetweenDownEdges ==
    /\ []ZeroWhenReleased
    /\ [][\A d \in Keys :
            /\ (hid_is_pressed(d) /\ hid_is_pressed(d)')
                   => hid_pressed_duration(d)' >= hid_pressed_duration(d)
            /\ (/\ stdin_is_pressed(d)
                /\ stdin_is_pressed(d)'
                /\ DirEvents(stdin_enqueued', d) = DirEvents(stdin_enqueued, d))
                   => stdin_pressed_duration(d)' >= stdin_pressed_duration(d)]_vars

\* An arrow decoded once by the terminal engine, its duration grown since.
C4_Witness ==
    /\ Len(DirEvents(stdin_enqueued, "up")) = 1
    /\ stdin_pressed_duration("up") > 0

\* C5: once stop() has returned, the terminal is in the mode start() saved.
C5_RestoredAfterStop ==
    (stdin_ctl = "stopped" /\ old_settings # "none") => term_mode = old_settings

\* More than ESC_TIMEOUT after the last byte was read, ESC [ is not pending.
C6_ClearedAfterGap ==
    (now - stdin_last_read > ESC_TIMEOUT) => buffer # <<ESC, "[">>

\* The last three bytes read are ESC [ A.
LastThreeAreUp ==
    /\ Len(stdin_recent) = 3
    /\ stdin_recent[1].ch = ESC
    /\ stdin_recent[2].ch = "["
    /\ stdin_recent[3].ch = "A"

\* The last byte read enqueued exactly one event, a down event for "up".
LastReadEnqueuedUp ==
    /\ stdin_recent[3].ev = 1
    /\ stdin_enqueued # <<>>
    /\ stdin_enqueued[Len(stdin_enqueued)].key = "up"
    /\ stdin_enqueued[Len(stdin_enqueued)].is_down

\* C6 as stated: ESC [ followed by more than 100 ms without a byte leaves
\* the buffer cleared; ESC [ A read with gaps below the timeout enqueues
\* exactly one down event for "up".
C6_Original ==
    /\ C6_ClearedAfterGap
    /\ (LastThreeAreUp /\ stdin_recent[2].quick /\ stdin_recent[3].quick)
           => LastReadEnqueuedUp

\* The step is a poll that found nothing to read, with a sequence pending.
PollTimedOut ==
    /\ stdin_thread = "select"
    /\ stdin_thread' = "loop"
    /\ stdin_errors' = stdin_errors
    /\ escape_sequence_start # <<>>

\* The step reads byte ch.
Reads(ch) ==
    /\ stdin_nread' = stdin_nread + 1
    /\ stdin_recent'[Len(stdin_recent')].ch = ch

\* C6 as amended: a poll that times out with a sequence pending clears the
\* buffer, enqueuing nothing, exactly when it ends more than 100 ms after the
\* ESC of that sequence was read; 'A' read while ESC [ is pending enqueues
\* exactly one down event for "up", and read while nothing is pending
\* enqueues nothing.
C6_EscapeTimeoutFromEsc ==
    [][/\ PollTimedOut =>
            /\ stdin_enqueued' = stdin_enqueued
            /\ IF now' - escape_sequence_start[1] > ESC_TIMEOUT
               THEN buffer' = <<>> /\ escape_sequence_start' = <<>>
               ELSE buffer' = buffer /\ escape_sequence_start' = escape_sequence_start
       /\ (Reads("A") /\ buffer = <<ESC, "[">>) =>
            /\ Len(stdin_enqueued') = Len(stdin_enqueued) + 1
            /\ stdin_enqueued'[Len(stdin_enqueued')].key = "up"
            /\ stdin_enqueued'[Len(stdin_enqueued')].is_down
            /\ buffer' = <<>>
       /\ (Reads("A") /\ buffer = <<>>) => stdin_enqueued' = stdin_enqueued]_vars

\* ESC [ timed out with nothing enqueued; ESC [ A read later gave one event.
C6_Witness ==
    /\ stdin_nread = 5
    /\ LastThreeAreUp
    /\ ~stdin_recent[1].quick
    /\ Len(stdin_enqueued) = 1
    /\ LastReadEnqueuedUp
    /\ stdin_errors = 0

\* C7: the decoded set is the set of arrow directions whose usage code sits
\* at a byte index 2..8 of the report.
C7_DecodeIsWindowUnion ==
    rep_done =>
        rep_keys = {USAGE_ARROW_MAP[rep_buf[i + 1]] :
                       i \in {j \in 2..8 : j < Len(rep_buf) /\ rep_buf[j + 1] \in ArrowUsages}}

\* A report with a report-ID byte in front and the usage of "up" at index 3.
C7_Witness ==
    /\ rep_done
    /\ Len(rep_buf) = 9
    /\ rep_buf[1] = 1
    /\ rep_buf[4] = 82
    /\ rep_keys = {"up"}

\* Where descriptor d sits in the enumeration, with a path and openable.
PositionOf(d) == CHOOSE i \in DOMAIN enum : enum[i] = Attached(d, i, "ok")

\* Nothing is configured; the usage-page device, the product-string device
\* and the device matching no rule are attached, in some order, all openable.
ThreeDevices ==
    /\ device_path = 0
    /\ vid = 0
    /\ pid = 0
    /\ Len(enum) = 3
    /\ \A d \in {UsageDev, ProductDev, OtherDev} :
           \E i \in DOMAIN enum : enum[i] = Attached(d, i, "ok")

\* C8 as stated: of the three devices, in any enumeration order, _open
\* accepts the usage-page device and never tries to open the third.
C8_Original ==
    (ThreeDevices /\ open_pc \in {"returned", "raised"}) =>
        /\ open_pc = "returned"
        /\ open_handle = PositionOf(UsageDev)
        /\ \A i \in DOMAIN open_attempts :
               open_attempts[i].path # PositionOf(OtherDev)

\* C8 as amended: of the three devices, in any enumeration order, _open
\* accepts whichever of the usage-page device and the product-string device
\* is enumerated first, with one open attempt, and never tries to open the
\* third.
C8_FirstEnumeratedCandidateWins ==
    (ThreeDevices /\ open_pc \in {"returned", "raised"}) =>
        LET u == PositionOf(UsageDev)
            p == PositionOf(ProductDev)
            first == IF u < p THEN u ELSE p
        IN  /\ open_pc = "returned"
            /\ open_handle = first
            /\ open_attempts = <<Attempt("open_path", first)>>
            /\ open_closed = <<>>

\* The product-string device is accepted: it is enumerated after the third
\* device and before the usage-page device.
C8_Witness ==
    /\ ThreeDevices
    /\ PositionOf(OtherDev) = 1
    /\ PositionOf(ProductDev) = 2
    /\ open_pc = "returned"
    /\ open_handle = 2

\* The newline-terminated lines of a stream, in order, without the newlines.
RECURSIVE Lines(_)
Lines(stream) ==
    IF \A i \in DOMAIN stream : stream[i] # NL
    THEN <<>>
    ELSE LET i == CHOOSE k \in DOMAIN stream :
                      stream[k] = NL /\ \A j \in 1..(k - 1) : stream[j] # NL
         IN  <<SubSeq(stream, 1, i - 1)>> \o Lines(SubSeq(stream, i + 1, Len(stream)))

\* What a stream holds after its last newline.
RECURSIVE Unterminated(_)
Unterminated(stream) ==
    IF stream = <<>> \/ stream[Len(stream)] = NL
    THEN <<>>
    ELSE Append(Unterminated(SubSeq(stream, 1, Len(stream) - 1)), stream[Len(stream)])

\* The lines of all connections, in the order the connections were made.
RECURSIVE AllLines(_)
AllLines(cs) ==
    IF cs = <<>> THEN <<>>
    ELSE AllLines(SubSeq(cs, 1, Len(cs) - 1)) \o Lines(cs[Len(cs)].stream)

\* The records of the calls whose write succeeded, in call order.
RECURSIVE WrittenRecords(_)
WrittenRecords(calls) ==
    IF calls = <<>> THEN <<>>
    ELSE LET c == calls[Len(calls)]
             before == WrittenRecords(SubSeq(calls, 1, Len(calls) - 1))
         IN  IF c.outcome = "written"
             THEN Append(before, JsonDumps(c.key, c.is_down, c.ts))
             ELSE before

\* send('left', True) and then send('left', False) have been called, no
\* other call, and neither a connect nor a write failed.
TwoSendsNoFailure ==
    /\ Len(proxy_calls) = 2
    /\ proxy_calls[1].key = "left" /\ proxy_calls[1].is_down
    /\ proxy_calls[2].key = "left" /\ ~proxy_calls[2].is_down
    /\ \A i \in 1..2 : proxy_calls[i].outcome = "written"

\* C9: with no failure, send('left', True) then send('left', False) write
\* to one connection exactly two newline-terminated records, key 'left'
\* with is_down true, then key 'left' with is_down false, and nothing else.
C9_TwoRecordsInOrder ==
    TwoSendsNoFailure =>
        /\ Len(conns) = 1
        /\ Lines(conns[1].stream) =
               <<JsonDumps("left", TRUE, proxy_calls[1].ts),
                 JsonDumps("left", FALSE, proxy_calls[2].ts)>>
        /\ Unterminated(conns[1].stream) = <<>>
        /\ Len(conns[1].stream) = 8

\* The two calls have been made, at different times.
C9_Witness ==
    /\ TwoSendsNoFailure
    /\ proxy_calls[1].ts < proxy_calls[2].ts
    /\ sock = 1

\* The step is a send() call whose write failed.
WriteFailed ==
    /\ Len(proxy_calls') = Len(proxy_calls) + 1
    /\ proxy_calls'[Len(proxy_calls')].outcome = "write_failed"

\* C10: send() attempts a connect exactly when it holds no connection, once;
\* a send() whose write fails closes and drops the connection, makes no
\* further connection and completes no record; the send() after it makes
\* one connect attempt; the complete records on all connections are those
\* of the calls whose write succeeded, once each, in call order.
C10_LazyConnectAtMostOnce ==
    /\ [](AllLines(conns) = WrittenRecords(proxy_calls))
    /\ [][/\ proxy_connects' = proxy_connects + (IF sock = 0 THEN 1 ELSE 0)
          /\ Len(conns') <= Len(conns) + (IF sock = 0 THEN 1 ELSE 0)
          /\ WriteFailed =>
                /\ sock' = 0
                /\ conns'[Len(conns')].closed
                /\ AllLines(conns') = AllLines(conns)
          /\ (proxy_calls # <<>> /\ proxy_calls[Len(proxy_calls)].outcome # "written")
                => proxy_connects' = proxy_connects + 1]_vars

\* A write failed half way; the next send() connected afresh and wrote its
\* record, the failed one staying incomplete on the dropped connection.
C10_Witness ==
    /\ Len(proxy_calls) = 3
    /\ proxy_calls[1].outcome = "written"
    /\ proxy_calls[2].outcome = "write_failed"
    /\ proxy_calls[3].outcome = "written"
    /\ Len(conns) = 2
    /\ proxy_connects = 2
    /\ Unterminated(conns[1].stream) # <<>>
    /\ conns[1].closed
    /\ sock = 2

\* No attempt of _open opened a device.
NothingOpened ==
    \A i \in DOMAIN open_attempts :
        LET a == open_attempts[i]
        IN  \/ a.path = 0
            \/ ~PathOpens(a.path)
            \/ /\ a.how = "open_path"
               /\ a.path # device_path
               /\ \E j \in DOMAIN enum : enum[j].path = a.path /\ enum[j].opens # "ok"

\* C11: when no device can be opened, start() fails, and then the engine is
\* not running, has no worker thread and no device, and its event queue and
\* key-state table are as they were; start() succeeds only with a device.
C11_StartFailsWithoutDevice ==
    /\ (open_pc \in {"returned", "raised"} /\ NothingOpened) =>
           /\ open_pc = "raised"
           /\ hid_ctl \in {"init", "failed"}
    /\ hid_ctl = "failed" =>
           /\ NothingOpened
           /\ ~hid_running
           /\ hid_thread = "none"
           /\ hid_dev = "none"
           /\ hid_event_queue = <<>>
           /\ hid_key_states = [k \in Keys |-> FALSE]
           /\ hid_key_press_time = [k \in Keys |-> 0]
    /\ hid_ctl = "started" => (open_handle # 0 /\ ~NothingOpened)

\* start() failed after both candidates had been tried in vain.
C11_Witness ==
    /\ hid_ctl = "failed"
    /\ Len(open_attempts) = 2
    /\ Len(candidates) = 2
    /\ device_path = 0
    /\ vid = 0

\* C12: the HID worker's error counter never exceeds 10; the step that
\* takes it to 10 ends the worker and clears the running flag; an exited
\* worker stays exited, reads nothing, counts nothing and enqueues nothing;
\* neither start() nor any other call fails because of it.
C12_ErrorCeilingStopsWorker ==
    /\ [](error_count <= max_errors /\ hid_ctl # "failed")
    /\ [][/\ (error_count' = max_errors /\ error_count # max_errors) =>
                (hid_thread' = "exited" /\ ~hid_running')
          /\ hid_thread = "exited" =>
                /\ hid_thread' = "exited"
                /\ hid_enqueued' = hid_enqueued
                /\ \/ hid_event_queue' = hid_event_queue
                   \/ hid_event_queue # <<>> /\ hid_event_queue' = Tail(hid_event_queue)
                /\ hid_reports' = hid_reports
                /\ error_count' = error_count
                /\ hid_key_states' = hid_key_states]_vars

\* The worker stopped itself at the ceiling, with events still queued, and
\* stop() was called afterwards.
C12_Witness ==
    /\ error_count = max_errors
    /\ hid_thread = "exited"
    /\ ~hid_running
    /\ hid_event_queue # <<>>
    /\ hid_ctl = "stopped"

\* The step is a read that returned without an error: a report or no data.
ReadWithoutError ==
    /\ hid_thread = "read"
    /\ hid_thread' = "loop"
    /\ error_count' # error_count + 1

\* C15 as stated: a read that completes without error, report or no data,
\* leaves no earlier error counted toward the ceiling, so that only errors
\* with no such read between them add up to 10.
C15_NonErrorReadResetsCount ==
    [][ReadWithoutError => error_count' = 0]_vars

\* C13: the bridge, having read the interrupt byte 0x03 in raw mode, returns
\* from run() with the terminal mode restored, without reading on.
C13_CtrlCExitsBridge ==
    [][(br_pc = "quit" /\ br_b = <<ETX>>)
         => (br_pc' = "returned" /\ br_mode' = br_old)]_vars

\* The last thing read(1) returned.
LastInput == IF br_input = <<>> THEN "none" ELSE br_input[Len(br_input)]

ReadsInterrupt ==
    /\ stdin_nread' = stdin_nread + 1
    /\ stdin_recent'[Len(stdin_recent')].ch = ETX

\* The worker is in the 0x03 branch or past it.
Interrupted == stdin_thread \in {"etx_restore", "etx_kill"} \/ stdin_sigint

\* C16: a read of 0x03, whatever is pending in the decoder, takes the worker
\* into the interrupt branch with running false; the saved terminal mode is
\* back before SIGINT is sent, SIGINT is sent from that branch only, and the
\* worker is then out of the loop; from the read on it enqueues no event and
\* reads no byte.
C16_InterruptByte ==
    /\ [][ReadsInterrupt => (stdin_thread' = "etx_restore" /\ ~stdin_running')]_vars
    /\ [](stdin_thread = "etx_restore" => (~stdin_running /\ ~stdin_sigint))
    /\ [](stdin_thread = "etx_kill" =>
            (~stdin_running /\ term_mode = old_settings /\ ~stdin_sigint))
    /\ [](stdin_sigint =>
            /\ ~stdin_running
            /\ term_mode = old_settings
            /\ stdin_thread \in {"restore", "exited"})
    /\ [][(~stdin_sigint /\ stdin_sigint') => stdin_thread = "etx_kill"]_vars
    /\ [][Interrupted =>
            /\ stdin_enqueued' = stdin_enqueued
            /\ stdin_nread' = stdin_nread]_vars

\* 0x03 arrived while an escape sequence was pending, and the worker is gone.
C16_Witness ==
    /\ stdin_sigint
    /\ stdin_thread = "exited"
    /\ buffer # <<>>
    /\ term_mode = "cooked"

\* C17: in both engines the release step of stop() (closing the device,
\* restoring the terminal) is entered only from stop()'s wait for the worker,
\* which itself follows the signalling step.
C17_StopJoinsBeforeRelease ==
    /\ [][(hid_ctl' = "join" /\ hid_ctl # "join") =>
            (hid_ctl = "started" /\ ~hid_running')]_vars
    /\ [][(hid_ctl' = "close" /\ hid_ctl # "close") => hid_ctl = "join"]_vars
    /\ [][(hid_dev' = "closed" /\ hid_dev # "closed") => hid_ctl = "close"]_vars
    /\ [][(stdin_ctl' = "restore" /\ stdin_ctl # "restore") => stdin_ctl = "join"]_vars
    /\ [][(stdin_ctl' = "stopped" /\ stdin_ctl # "stopped") => stdin_ctl = "restore"]_vars

\* A vendor id and a product id are configured.
IdsConfigured == vid # 0 /\ pid # 0

\* The paths of the configured devices: the configured path, and the first
\* attached device with the configured ids.
ConfiguredPaths ==
    (IF device_path # 0 THEN {device_path} ELSE {}) \cup
    (IF IdsConfigured /\ Matching(vid, pid) # {}
     THEN {enum[First(Matching(vid, pid))].path} \ {0}
     ELSE {})

\* _open starts enumerating the attached devices.
StartsEnumerating == open_pc # "enumerate" /\ open_pc' = "enumerate"

\* C18 as stated: with a path or a vendor/product id configured, _open never
\* enumerates, and what it returns is a configured device.
C18_Original ==
    /\ [][StartsEnumerating => (device_path = 0 /\ ~IdsConfigured)]_vars
    /\ []((open_pc = "returned" /\ (device_path # 0 \/ IdsConfigured)) =>
            open_handle \in ConfiguredPaths)

\* C18 as amended: a configured path is tried first; configured ids are tried
\* when no path is configured or the path did not open, and their failure
\* fails _open, which then has tried configured devices only; the attached
\* devices are enumerated only when no ids are configured and either no path
\* is configured or the one attempt on the path has failed.
C18_ConfiguredDeviceFirst ==
    /\ [][StartsEnumerating =>
            /\ ~IdsConfigured
            /\ device_path # 0 =>
                 /\ open_attempts = <<Attempt("open_path", device_path)>>
                 /\ ~PathOpens(device_path)]_vars
    /\ []((device_path # 0 /\ open_attempts # <<>>) =>
            open_attempts[1] = Attempt("open_path", device_path))
    /\ []((device_path # 0 /\ PathOpens(device_path) /\ open_pc \in {"returned", "raised"}) =>
            /\ open_pc = "returned"
            /\ open_handle = device_path
            /\ Len(open_attempts) = 1)
    /\ [](IdsConfigured =>
            /\ open_pc \notin {"enumerate", "loop"}
            /\ candidates = <<>>
            /\ \A i \in DOMAIN open_attempts :
                   /\ open_attempts[i].path \in ConfiguredPaths \cup {0}
                   /\ open_attempts[i].how = "open" =>
                        /\ i = Len(open_attempts)
                        /\ device_path # 0 => (i = 2 /\ ~PathOpens(device_path))
            /\ open_pc = "returned" => open_handle \in ConfiguredPaths
            /\ open_pc = "raised" =>
                   \A p \in ConfiguredPaths : ~PathOpens(p))

\* The configured path did not open, no ids are configured, and _open
\* returned a device it found by enumeration.
C18_Witness ==
    /\ device_path # 0
    /\ ~IdsConfigured
    /\ open_pc = "returned"
    /\ open_handle # device_path
    /\ open_attempts[1] = Attempt("open_path", device_path)

\* The down events of log that are about direction d, in order.
DownEvents(log, d) == SelectSeq(log, LAMBDA e : e.key = d /\ e.is_down)

\* t is the timestamp of the most recent down event of log about d.
IsLastDownTime(log, d, t) ==
    LET s == DownEvents(log, d) IN s # <<>> /\ s[Len(s)].ts = t

\* The HID engine's half of the table invariant.
HidPressTimeIsLastDown ==
    \A d \in Keys :
        hid_is_pressed(d) => IsLastDownTime(hid_enqueued, d, hid_key_press_time[d])

\* The terminal engine's half of the table invariant.
StdinPressTimeIsLastDown ==
    \A d \in Keys :
        stdin_is_pressed(d) => IsLastDownTime(stdin_enqueued, d, stdin_key_press_time[d])

\* Each engine's tables change only in a step of its worker that handles
\* what a read returned.
TablesChangeInWorkerOnly ==
    /\ (<<hid_key_states, hid_key_press_time>>' # <<hid_key_states, hid_key_press_time>>)
          => (hid_thread = "read" /\ hid_ctl' = hid_ctl /\ Len(hid_event_queue') >= Len(hid_event_queue))
    /\ (<<stdin_key_states, stdin_key_press_time>>' # <<stdin_key_states, stdin_key_press_time>>)
          => (stdin_thread = "read" /\ stdin_ctl' = stdin_ctl /\ Len(stdin_event_queue') >= Len(stdin_event_queue))

\* C19: in both engines the press time stored for a pressed direction is the
\* timestamp of the most recent down event enqueued for it, and the tables
\* are changed by the worker loop only.
C19_PressTimeIsLastDownTimestamp ==
    /\ []HidPressTimeIsLastDown
    /\ []StdinPressTimeIsLastDown
    /\ [][TablesChangeInWorkerOnly]_vars

\* stop() of the HID engine has set the flag.
HidStopSignalled == hid_ctl \in {"join", "close", "stopped"} /\ ~hid_running

\* stop() of the terminal engine has set the flag.
StdinStopSignalled == stdin_ctl \in {"restore", "stopped"} /\ ~stdin_running

\* C20: in both engines, once stop() has set running to false the worker
\* eventually exits, whatever its polls and reads return; a worker that has
\* exited enqueues nothing.
C20_WorkerExitsAfterStop ==
    /\ HidStopSignalled ~> hid_thread = "exited"
    /\ StdinStopSignalled ~> stdin_thread = "exited"
    /\ [][hid_thread = "exited" =>
            (hid_thread' = "exited" /\ hid_enqueued' = hid_enqueued)]_vars
    /\ [][stdin_thread = "exited" =>
            (stdin_thread' = "exited" /\ stdin_enqueued' = stdin_enqueued)]_vars

\* stop() came while the worker was polling, past the time the running
\* engine sees; the poll returned and the worker has exited.
C20_Witness ==
    /\ stdin_ctl = "stopped"
    /\ stdin_thread = "exited"
    /\ now > LiveMaxTime
    /\ stdin_enqueued # <<>>

\* line is the record of an event of direction d, down or up.
IsRecord(line, d, is_down) == line[1].key = d /\ line[2].is_down = is_down

\* The complete up record at position i of lines follows a down record for
\* the same direction.
UpFollowsDown(lines, i) ==
    i > 1 /\ IsRecord(lines[i - 1], lines[i][1].key, TRUE)

\* C23 as stated: on every connection the bridge opens, each complete up
\* record is immediately preceded by a down record for the same direction.
C23_Original ==
    \A c \in DOMAIN conns :
        LET lines == Lines(conns[c].stream)
        IN  \A i \in DOMAIN lines :
                ~lines[i][2].is_down => UpFollowsDown(lines, i)

\* C23 as amended: on every connection the bridge opens, each complete up
\* record is immediately preceded by a down record for the same direction,
\* or is the first record of its connection; the bridge calls send() in
\* pairs, down then up for one direction, and an up record is the first of
\* its connection exactly when the down call of its pair wrote no record.
C23_UpFollowsDownOrOpensConnection ==
    /\ \A c \in DOMAIN conns :
           LET lines == Lines(conns[c].stream)
           IN  \A i \in DOMAIN lines :
                   ~lines[i][2].is_down => (i = 1 \/ UpFollowsDown(lines, i))
    /\ \A i \in DOMAIN proxy_calls :
           /\ proxy_calls[i].is_down = (i % 2 = 1)
           /\ (i % 2 = 0) => proxy_calls[i].key = proxy_calls[i - 1].key
    /\ \A i \in DOMAIN proxy_calls :
           (i % 2 = 0 /\ proxy_calls[i].outcome = "written") =>
               \E c \in DOMAIN conns :
                   LET lines == Lines(conns[c].stream)
                       up == JsonDumps(proxy_calls[i].key, FALSE, proxy_calls[i].ts)
                   IN  \E k \in DOMAIN lines :
                           /\ lines[k] = up
                           /\ (k = 1) = (proxy_calls[i - 1].outcome # "written")

\* A down record was lost to a failed write; the up record of the same arrow
\* is the first record of a fresh connection.
C23_Witness ==
    /\ Len(proxy_calls) = 2
    /\ proxy_calls[1].outcome = "write_failed"
    /\ proxy_calls[2].outcome = "written"
    /\ Len(conns) = 2
    /\ Lines(conns[2].stream) = <<JsonDumps(proxy_calls[2].key, FALSE, proxy_calls[2].ts)>>

\* The step is the second half of a get_last_direction() call: the slot is
\* cleared and the call returns.
ClearsSlot == gld_pc = "clear" /\ gld_pc' = "idle"

\* C22: a get_last_direction() call returns what the slot holds when the
\* call clears it, and clears nothing the worker has decoded since the call
\* read the slot, for every interleaving with the worker.
C22_ClearsOnlyWhatItReturns ==
    [][ClearsSlot =>
         /\ gld_returned' = last_direction
         /\ (last_direction # "none" => Len(stdin_enqueued) = gld_seen)]_vars

\* The directions of the down entries of log, in order; log holds events or
\* send() calls.
RECURSIVE DownDirections(_)
DownDirections(log) ==
    IF log = <<>> THEN <<>>
    ELSE LET e == log[Len(log)]
             before == DownDirections(SubSeq(log, 1, Len(log) - 1))
         IN  IF e.is_down THEN Append(before, e.key) ELSE before

\* The directions of the arrow sequences in input: one for every byte that,
\* with the two bytes read before it, makes ESC '[' and one of 'A'..'D'.
RECURSIVE Arrows(_)
Arrows(input) ==
    IF Len(input) < 3 THEN <<>>
    ELSE LET before == Arrows(SubSeq(input, 1, Len(input) - 1))
             last3 == SubSeq(input, Len(input) - 2, Len(input))
         IN  IF last3 \in DOMAIN ESC_SEQ_MAP
             THEN Append(before, ESC_SEQ_MAP[last3])
             ELSE before

\* Both decoders have read the same bytes and are done with them.
BothDone == Len(br_input) = stdin_nread /\ br_pc = "read"

====
